---------------------------- MODULE Spec2Model ----------------------------
(***************************************************************************)
(* Author verification and author determination (src/algorithm.py) over    *)
(* the sample builder and two-sample test of src/procedures.py.            *)
(*                                                                         *)
(* A document is a csr_matrix: shape[1] columns and one row per chunk.     *)
(* The contents of a row are kept symbolic (the identity of the chunk),    *)
(* the result of a distance function is the symbolic term <<f, a, b>>,     *)
(* a ZV value is the symbolic product (1/time) * sum(terms), and           *)
(* scipy's ks_2samp is a function of the two samples it is given whose     *)
(* p-value lies in [0, 1] and is 1 for two samples of zeros; p-values are  *)
(* written in hundredths.                                                  *)
(***************************************************************************)
EXTENDS Integers, Sequences, FiniteSets, TLC

VARIABLES
    document,        \* the unknown document (document2_chunks of a verification)
    all_documents,   \* the candidate documents
    all_authors,     \* all_authors[i] is the author of all_documents[i]
    time_start,      \* sweep specification
    time_end,
    delta_time,
    entry,           \* which function the caller invoked
    av,              \* frame of author_verification
    ad,              \* frame of author_determination
    ks_2samp,        \* the p-values scipy's ks_2samp has returned, per pair of samples
    dd,              \* a direct call of document_distance
    zs               \* a direct call of zv_z1 / zv_z2

vars == <<document, all_documents, all_authors, time_start, time_end, delta_time,
          entry, av, ad, ks_2samp, dd, zs>>

inputs == <<document, all_documents, all_authors, time_start, time_end, delta_time>>

---------------------------------------------------------------------------
(* Bounds of the model *)

MaxChunks == 5          \* longest candidate document, in chunks
MaxUnknownChunks == 2   \* longest unknown document, in chunks
MaxCandidates == 2      \* most candidate documents
MaxTime == 4            \* largest time_start and time_end
MaxDelta == 2           \* largest delta_time

Cols == {1, 2}                                   \* shape[1] of a document
Metrics == {"canberra", "euclidean", "spearman"} \* src/distance.py
PValues == {0, 3, 5, 50, 99}                     \* p-values of ks_2samp, in hundredths
None == 0                                        \* no author; authors are 1, 2, ...

---------------------------------------------------------------------------
(* csr_matrix *)

Matrix(cols, rows) == [cols |-> cols, rows |-> rows]
shape0(m) == Len(m.rows)
shape1(m) == m.cols

Returned(v) == [raised |-> "none", value |-> v]
Raised(e, v) == [raised |-> e, value |-> v]

\* chunks[i] with Python's indexing: 0-based, a negative index counts from the end
GetRow(chunks, i) ==
    LET n == shape0(chunks)
        k == IF i < 0 THEN i + n ELSE i
    IN  IF k < 0 \/ k >= n
        THEN Raised("IndexError", Matrix(shape1(chunks), <<>>))
        ELSE Returned(Matrix(shape1(chunks), <<chunks.rows[k + 1]>>))

\* sparse.vstack refuses blocks whose column counts differ
merge_documents(document1_chunks, document2_chunks) ==
    IF shape1(document1_chunks) # shape1(document2_chunks)
    THEN Raised("ValueError", Matrix(shape1(document1_chunks), <<>>))
    ELSE Returned(Matrix(shape1(document1_chunks),
                         document1_chunks.rows \o document2_chunks.rows))

---------------------------------------------------------------------------
(* src/procedures.py *)

\* the distance function applied to two dense vectors: the symbolic term
\* <<f, a, b>>; the empty tuple stands for "the metric was not invoked"
NoDistance == <<>>
distance_function(f, chunk1, chunk2) == <<f, chunk1.rows[1], chunk2.rows[1]>>

document_distance_unchecked(chunk1, chunk2, f) ==
    Returned(distance_function(f, chunk1, chunk2))

document_distance(chunk1, chunk2, f) ==
    IF shape1(chunk1) # shape1(chunk2)
    THEN Raised("ValueError", NoDistance)
    ELSE Returned(distance_function(f, chunk1, chunk2))

\* the least index of a sequence of outcomes that raised, 0 when none did
FirstRaised(outcomes) ==
    IF \E k \in 1..Len(outcomes) : outcomes[k].raised # "none"
    THEN CHOOSE k \in 1..Len(outcomes) :
            /\ outcomes[k].raised # "none"
            /\ \A l \in 1..(k - 1) : outcomes[l].raised = "none"
    ELSE 0

\* one pass of the loop of zv_function, j = 0 .. time-1
ZvTerm(chunks, i, j, f) ==
    LET a == GetRow(chunks, i)
        b == GetRow(chunks, i - j)
    IN  IF a.raised # "none" THEN Raised(a.raised, NoDistance)
        ELSE IF b.raised # "none" THEN Raised(b.raised, NoDistance)
        ELSE document_distance(a.value, b.value, f)

\* ZV = (1 / time) * sum(Dis(Di, Di-j)): value is [time, sum], reads the indices i - j
zv_function(chunks, time, i, f) ==
    LET terms == [j \in 1..time |-> ZvTerm(chunks, i, j - 1, f)]
        bad   == FirstRaised(terms)
    IN  IF bad # 0
        THEN [raised |-> terms[bad].raised,
              value  |-> [time |-> time, sum |-> <<>>],
              reads  |-> [j \in 1..bad |-> i - (j - 1)]]
        ELSE IF time = 0
        THEN [raised |-> "ZeroDivisionError",
              value  |-> [time |-> time, sum |-> <<>>],
              reads  |-> <<>>]
        ELSE [raised |-> "none",
              value  |-> [time |-> time, sum |-> [j \in 1..time |-> terms[j].value]],
              reads  |-> [j \in 1..time |-> i - (j - 1)]]

\* range(lo, hi) as the sequence lo, lo+1, ..., hi-1
Range(lo, hi) == [k \in 1..(hi - lo) |-> lo + k - 1]

\* the list comprehension [zv_function(all_chunks, time, i, f) for i in indices]
ZvList(all_chunks, time, indices, f) ==
    LET each == [k \in 1..Len(indices) |-> zv_function(all_chunks, time, indices[k], f)]
        bad  == FirstRaised(each)
    IN  IF bad # 0
        THEN [raised |-> each[bad].raised, value |-> <<>>,
              index  |-> SubSeq(indices, 1, bad),
              reads  |-> [k \in 1..bad |-> each[k].reads]]
        ELSE [raised |-> "none",
              value  |-> [k \in 1..Len(indices) |-> each[k].value],
              index  |-> indices,
              reads  |-> [k \in 1..Len(indices) |-> each[k].reads]]

zv_z1_short(all_chunks, doc, time, f) ==
    ZvList(all_chunks, time, Range(time + 1, shape0(doc) - 1), f)

zv_z1_to_end(all_chunks, doc, time, f) ==
    ZvList(all_chunks, time, Range(time + 1, shape0(doc) + 1), f)

zv_z1(all_chunks, doc, time, f) ==
    ZvList(all_chunks, time, Range(time + 1, shape0(doc)), f)

zv_z2_from_boundary(all_chunks, doc, time, f) ==
    ZvList(all_chunks, time, Range(shape0(doc), shape0(all_chunks)), f)

zv_z2(all_chunks, doc, time, f) ==
    ZvList(all_chunks, time, Range(shape0(doc) + 1, shape0(all_chunks)), f)

NoSample == [raised |-> "none", value |-> <<>>, index |-> <<>>, reads |-> <<>>]

\* a sample all of whose ZV values are sums of distances of a chunk to itself
\* (window size 1) or empty sums (a negative window size): every value in it
\* is 0, the same vectors producing a distance of 0
ZeroSample(z) ==
    \A k \in 1..Len(z) : \A j \in 1..Len(z[k].sum) : z[k].sum[j][2] = z[k].sum[j][3]

\* the p-values ks_2samp may return for two samples: 1.0 when both samples
\* hold nothing but zeros, the p-value it returned before for the same
\* samples, any p-value otherwise (author_determination drops the p-value of a
\* call that does not match, line 144: one p-value below 0.05 stands for all
\* of them there)
KsValues(z1, z2) ==
    IF ZeroSample(z1) /\ ZeroSample(z2) THEN {100}
    ELSE IF \E r \in ks_2samp : r.z1 = z1 /\ r.z2 = z2
    THEN {r.p_value : r \in {q \in ks_2samp : q.z1 = z1 /\ q.z2 = z2}}
    ELSE IF entry = "author_determination" THEN PValues \ {0} ELSE PValues

tst_loose(p_value) == [h |-> p_value >= 3, p_value |-> p_value]

\* return p_value >= 0.05, p_value
tst(p_value) == [h |-> p_value >= 5, p_value |-> p_value]

max(a, b) == IF b > a THEN b ELSE a

---------------------------------------------------------------------------
(* src/algorithm.py: author_verification *)

AvIdle ==
    [pc |-> "idle", document1_chunks |-> Matrix(1, <<>>),
     document2_chunks |-> Matrix(1, <<>>), all_chunks |-> Matrix(1, <<>>),
     document1_chunks_len |-> 0, time_start |-> 0, time_end |-> 0, delta_time |-> 1,
     time |-> 0, last_pvalue |-> -1,
     z1 |-> NoSample, z2 |-> NoSample,
     ret |-> [raised |-> "none", h |-> FALSE, p_value |-> -1],
     tests |-> <<>>, built |-> <<>>]

\* lines 10-11, 50-52 and the range of line 55: the frame of a call, with the
\* arguments args, that has not yet entered its loop; tests and built record the window sizes at which the
\* two-sample test was run and at which a sample was built
AvEnter(args) ==
    LET m == merge_documents(args.document1_chunks, args.document2_chunks)
    IN  [AvIdle EXCEPT
            !.pc = IF m.raised = "none" THEN "loop" ELSE "raised",
            !.document1_chunks = args.document1_chunks,
            !.document2_chunks = args.document2_chunks,
            !.all_chunks = m.value,
            !.document1_chunks_len = shape0(args.document1_chunks),
            !.time_start = args.time_start,
            !.time_end = args.time_end,
            !.delta_time = args.delta_time,
            !.time = args.time_start,
            !.ret = [raised |-> m.raised, h |-> FALSE, p_value |-> -1]]

WindowPastEnd(time, document1_chunks_len) == time > document1_chunks_len

\* line 58: if time >= document1_chunks_len: break
WindowTooLarge(time, document1_chunks_len) == time >= document1_chunks_len

KeepLatest(last_pvalue, p_value) == p_value

\* line 78: last_pvalue = max(last_pvalue, p_value)
LargestPValue(last_pvalue, p_value) == max(last_pvalue, p_value)

AvNoMatchSentinel(frame) ==
    [frame EXCEPT !.pc = "returned",
                  !.ret = [raised |-> "none", h |-> FALSE, p_value |-> -1]]

\* line 81 (also reached by the breaks of lines 59 and 68)
AvNoMatch(frame) ==
    [frame EXCEPT !.pc = "returned",
                  !.ret = [raised |-> "none", h |-> FALSE, p_value |-> frame.last_pvalue]]

AvRaise(frame, e) ==
    [frame EXCEPT !.pc = "raised",
                  !.ret = [raised |-> e, h |-> FALSE, p_value |-> -1]]

\* lines 55-78: one pass of the sweep, at window size av.time
AuthorVerificationStep ==
    /\ av.pc = "loop"
    /\ av.time < av.time_end
    /\ UNCHANGED <<inputs, entry, ad, dd, zs>>
    /\ LET time == av.time
           z1 == zv_z1(av.all_chunks, av.document1_chunks, time, "canberra")
           z2 == zv_z2(av.all_chunks, av.document1_chunks, time, "canberra")
       IN  IF WindowTooLarge(time, av.document1_chunks_len)
           THEN /\ av' = AvNoMatch(av)
                /\ UNCHANGED ks_2samp
           ELSE IF z1.raised # "none"
           THEN /\ av' = AvRaise([av EXCEPT !.z1 = z1, !.built = Append(@, time)],
                                 z1.raised)
                /\ UNCHANGED ks_2samp
           ELSE IF z2.raised # "none"
           THEN /\ av' = AvRaise([av EXCEPT !.z1 = z1, !.z2 = z2,
                                            !.built = Append(@, time)], z2.raised)
                /\ UNCHANGED ks_2samp
           ELSE IF Len(z1.value) = 0 \/ Len(z2.value) = 0
           THEN /\ av' = AvNoMatch([av EXCEPT !.z1 = z1, !.z2 = z2,
                                              !.built = Append(@, time)])
                /\ UNCHANGED ks_2samp
           ELSE \E p \in KsValues(z1.value, z2.value) :
                   LET t == tst(p)
                       frame == [av EXCEPT !.z1 = z1, !.z2 = z2,
                                           !.built = Append(@, time),
                                           !.tests = Append(@, [time |-> time,
                                                                p_value |-> p])]
                   IN  /\ ks_2samp' = ks_2samp \cup
                              {[z1 |-> z1.value, z2 |-> z2.value, p_value |-> p]}
                       /\ IF t.h
                          THEN av' = [frame EXCEPT
                                        !.pc = "returned",
                                        !.ret = [raised |-> "none", h |-> TRUE,
                                                 p_value |-> t.p_value]]
                          ELSE av' = [frame EXCEPT
                                        !.last_pvalue = LargestPValue(@, t.p_value),
                                        !.time = time + av.delta_time]

\* the range of line 55 is used up: line 81
AuthorVerificationEnd ==
    /\ av.pc = "loop"
    /\ av.time >= av.time_end
    /\ av' = AvNoMatch(av)
    /\ UNCHANGED <<inputs, entry, ad, ks_2samp, dd, zs>>

---------------------------------------------------------------------------
(* src/algorithm.py: author_determination *)

\* the candidate indices of Python, 0 .. n-1
Candidates == 0..(Len(all_documents) - 1)

AdIdle ==
    [pc |-> "idle", time |-> 0, i |-> 0, positive_matches |-> <<>>, stop |-> FALSE,
     ret |-> [raised |-> "none", author |-> None, positive_matches |-> <<>>],
     calls |-> <<>>, returns |-> <<>>]

\* what a verifier call left behind: its result, the window sizes at which it
\* built samples and at which it ran the two-sample test, and the score map
\* after lines 144-147
Outcome(frame, scores) ==
    [raised |-> frame.ret.raised, h |-> frame.ret.h, p_value |-> frame.ret.p_value,
     built |-> frame.built,
     tested |-> [k \in 1..Len(frame.tests) |-> frame.tests[k].time],
     scores |-> scores]

NeverStop(match_value) == FALSE

\* line 149: if match_value >= 0.99
NearlyPerfect(match_value) == match_value >= 99

best_author_last(positive_matches) ==
    CHOOSE i \in DOMAIN positive_matches :
        /\ \A k \in DOMAIN positive_matches : positive_matches[k] <= positive_matches[i]
        /\ \A k \in DOMAIN positive_matches :
              positive_matches[k] = positive_matches[i] => k <= i

\* line 159: max(positive_matches, key=positive_matches.get), the first key
\* (in insertion order 0, 1, ...) that holds the largest value
best_author(positive_matches) ==
    CHOOSE i \in DOMAIN positive_matches :
        /\ \A k \in DOMAIN positive_matches : positive_matches[k] <= positive_matches[i]
        /\ \A k \in DOMAIN positive_matches :
              positive_matches[k] = positive_matches[i] => i <= k

NeverUnmatched(score) == FALSE

\* line 160: if positive_matches[best_author_i] == 0
Unmatched(score) == score = 0

\* the sweep specifications a caller passes, with time_end one of ends
Sweeps(ends) ==
    {sw \in [time_start : (-1)..MaxTime, time_end : ends, delta_time : 1..MaxDelta] :
        sw.time_end >= sw.time_start}

NewDocument(id, cols, len) == Matrix(cols, [r \in 1..len |-> <<id, r>>])

\* the documents a caller passes: document A of a verification, the unknown
\* document (empty, of one chunk, or of MaxUnknownChunks chunks), and the
\* candidates of a determination (documents of at least MaxChunks - 2 chunks,
\* at most two of them longer than that, at most one of them of another
\* dimensionality)
CandidateDocuments(id) == {NewDocument(id, c, len) : c \in Cols, len \in 0..MaxChunks}
UnknownDocuments == {NewDocument(0, 1, len) : len \in {0, 1, MaxUnknownChunks}}
Corpora(n) ==
    {[k \in 1..n |-> NewDocument(k, IF k = odd THEN 2 ELSE 1, len[k])] :
        odd \in 0..n,
        len \in {l \in [1..n -> (MaxChunks - 2)..MaxChunks] :
                    Cardinality({k \in 1..n : l[k] > MaxChunks - 2}) <= 2}}

\* the authors of n candidates: all different, or all the same
AuthorLists(n) == {[k \in 1..n |-> k], [k \in 1..n |-> 1]}

VerifierArgumentsFromStart(i, time) ==
    [document1_chunks |-> all_documents[i + 1], document2_chunks |-> document,
     time_start |-> time_start, time_end |-> time_end, delta_time |-> delta_time]

\* lines 140-142: author_verification(all_documents[i], document, time,
\* time_end, delta_time, distance_function)
VerifierArguments(i, time) ==
    [document1_chunks |-> all_documents[i + 1], document2_chunks |-> document,
     time_start |-> time, time_end |-> time_end, delta_time |-> delta_time]

LatestMatch(match_value, previous) == match_value

\* line 147: max(match_value, positive_matches[i])
BestMatch(match_value, previous) == max(match_value, previous)

\* the call, lines 132-133 and the range of line 136
CallAuthorDetermination ==
    /\ entry = "idle"
    /\ entry' = "author_determination"
    /\ document' \in UnknownDocuments
    /\ \E n \in 0..MaxCandidates :
          /\ all_documents' \in Corpora(n)
          /\ all_authors' \in AuthorLists(n)
          /\ \E sw \in Sweeps({MaxTime}) :
                /\ time_start' = sw.time_start
                /\ time_end' = sw.time_end
                /\ delta_time' = sw.delta_time
                /\ ad' = [AdIdle EXCEPT
                            !.pc = "loop",
                            !.time = sw.time_start,
                            !.positive_matches = [i \in 0..(n - 1) |-> 0]]
    /\ UNCHANGED <<av, ks_2samp, dd, zs>>

\* lines 138-142: the call of author_verification for candidate ad.i
AuthorDeterminationCall ==
    /\ ad.pc = "loop"
    /\ ad.time < time_end
    /\ ad.i < Len(all_documents)
    /\ av' = AvEnter(VerifierArguments(ad.i, ad.time))
    /\ ad' = [ad EXCEPT !.pc = "call",
                        !.calls = Append(@, [i |-> ad.i, time_start |-> ad.time])]
    /\ UNCHANGED <<inputs, entry, ks_2samp, dd, zs>>

\* lines 140-151: the call returned (or raised)
AuthorDeterminationReturn ==
    /\ ad.pc = "call"
    /\ av.pc \in {"returned", "raised"}
    /\ av' = AvIdle
    /\ IF av.pc = "raised"
       THEN ad' = [ad EXCEPT !.pc = "raised",
                             !.ret = [raised |-> av.ret.raised, author |-> None,
                                      positive_matches |-> <<>>],
                             !.returns = Append(@, Outcome(av, ad.positive_matches))]
       ELSE IF av.ret.h
       THEN LET scores == [ad.positive_matches EXCEPT
                              ![ad.i] = BestMatch(av.ret.p_value, @)]
            IN  ad' = [ad EXCEPT
                         !.positive_matches = scores,
                         !.stop = NearlyPerfect(av.ret.p_value),
                         !.pc = IF NearlyPerfect(av.ret.p_value) THEN "break" ELSE "loop",
                         !.i = IF NearlyPerfect(av.ret.p_value) THEN @ ELSE @ + 1,
                         !.returns = Append(@, Outcome(av, scores))]
       ELSE ad' = [ad EXCEPT !.pc = "loop", !.i = @ + 1,
                             !.returns = Append(@, Outcome(av, ad.positive_matches))]
    /\ UNCHANGED <<inputs, entry, ks_2samp, dd, zs>>

\* lines 138, 154, 136: the inner loop is used up, stop is not set, next time
AuthorDeterminationNextTime ==
    /\ ad.pc = "loop"
    /\ ad.time < time_end
    /\ ad.i >= Len(all_documents)
    /\ ad' = [ad EXCEPT !.time = @ + delta_time, !.i = 0]
    /\ UNCHANGED <<inputs, entry, av, ks_2samp, dd, zs>>

\* lines 154-164: after the loops (used up, or left by the break of line 155)
AuthorDeterminationSelect ==
    /\ \/ ad.pc = "loop" /\ ad.time >= time_end
       \/ ad.pc = "break" /\ ad.stop
    /\ IF DOMAIN ad.positive_matches = {}
       THEN ad' = [ad EXCEPT !.pc = "raised",
                             !.ret = [raised |-> "ValueError", author |-> None,
                                      positive_matches |-> <<>>]]
       ELSE LET best_author_i == best_author(ad.positive_matches)
            IN  IF Unmatched(ad.positive_matches[best_author_i])
                THEN ad' = [ad EXCEPT
                              !.pc = "returned",
                              !.ret = [raised |-> "none", author |-> None,
                                       positive_matches |-> ad.positive_matches]]
                ELSE ad' = [ad EXCEPT
                              !.pc = "returned",
                              !.ret = [raised |-> "none",
                                       author |-> all_authors[best_author_i + 1],
                                       positive_matches |-> ad.positive_matches]]
    /\ UNCHANGED <<inputs, entry, av, ks_2samp, dd, zs>>

---------------------------------------------------------------------------
(* Direct calls *)

\* author_verification(document1_chunks, document2_chunks, time_start, time_end,
\* delta_time)
CallAuthorVerification ==
    /\ entry = "idle"
    /\ entry' = "author_verification"
    /\ \E document1_chunks \in CandidateDocuments(1), sw \in Sweeps(0..MaxTime) :
          /\ document' \in UnknownDocuments
          /\ all_documents' = <<document1_chunks>>
          /\ all_authors' = <<1>>
          /\ time_start' = sw.time_start
          /\ time_end' = sw.time_end
          /\ delta_time' = sw.delta_time
          /\ av' = AvEnter([document1_chunks |-> document1_chunks,
                            document2_chunks |-> document',
                            time_start |-> sw.time_start,
                            time_end |-> sw.time_end,
                            delta_time |-> sw.delta_time])
    /\ UNCHANGED <<ad, ks_2samp, dd, zs>>

DdIdle ==
    [chunk1 |-> Matrix(1, <<>>), chunk2 |-> Matrix(1, <<>>), f |-> "canberra",
     ret |-> Returned(NoDistance)]

\* document_distance(chunk1, chunk2, f) on two chunks of any two documents
CallDocumentDistance ==
    /\ entry = "idle"
    /\ entry' = "document_distance"
    /\ \E c1 \in Cols, c2 \in Cols, f \in Metrics :
          LET chunk1 == Matrix(c1, <<<<1, 1>>>>)
              chunk2 == Matrix(c2, <<<<0, 1>>>>)
          IN  dd' = [chunk1 |-> chunk1, chunk2 |-> chunk2, f |-> f,
                     ret |-> document_distance(chunk1, chunk2, f)]
    /\ UNCHANGED <<inputs, av, ad, ks_2samp, zs>>

ZsIdle ==
    [document1_chunks |-> Matrix(1, <<>>), all_chunks |-> Matrix(1, <<>>),
     time |-> 0, z1 |-> NoSample, z2 |-> NoSample]

\* zv_z1 and zv_z2 on merge_documents(document1_chunks, document2_chunks)
CallSampleBuilder ==
    /\ entry = "idle"
    /\ entry' = "zv"
    /\ \E document1_chunks \in CandidateDocuments(1),
          document2_chunks \in UnknownDocuments, time \in (-1)..MaxTime :
          LET m == merge_documents(document1_chunks, document2_chunks)
          IN  /\ m.raised = "none"
              /\ zs' = [document1_chunks |-> document1_chunks,
                        all_chunks |-> m.value,
                        time |-> time,
                        z1 |-> zv_z1(m.value, document1_chunks, time, "canberra"),
                        z2 |-> zv_z2(m.value, document1_chunks, time, "canberra")]
    /\ UNCHANGED <<inputs, av, ad, ks_2samp, dd>>

---------------------------------------------------------------------------
(* The specification *)

Init ==
    /\ document = NewDocument(0, 1, 0)
    /\ all_documents = <<>>
    /\ all_authors = <<>>
    /\ time_start = 0
    /\ time_end = 0
    /\ delta_time = 1
    /\ entry = "idle"
    /\ av = AvIdle
    /\ ad = AdIdle
    /\ ks_2samp = {}
    /\ dd = DdIdle
    /\ zs = ZsIdle

Next ==
    \/ CallAuthorVerification
    \/ AuthorVerificationStep
    \/ AuthorVerificationEnd
    \/ CallAuthorDetermination
    \/ AuthorDeterminationCall
    \/ AuthorDeterminationReturn
    \/ AuthorDeterminationNextTime
    \/ AuthorDeterminationSelect
    \/ CallDocumentDistance
    \/ CallSampleBuilder

Spec == Init /\ [][Next]_vars

---------------------------------------------------------------------------
(* Properties *)

Max0(x) == IF x > 0 THEN x ELSE 0

SeqMax(seq) == CHOOSE x \in {seq[k] : k \in 1..Len(seq)} :
                  \A k \in 1..Len(seq) : seq[k] <= x

TestPValues(frame) == [k \in 1..Len(frame.tests) |-> frame.tests[k].p_value]

\* the tests of a call were run at time_start, time_start + delta_time, ...,
\* each below time_end
InSweepOrder(frame) ==
    \A k \in 1..Len(frame.tests) :
        /\ frame.tests[k].time = frame.time_start + (k - 1) * delta_time
        /\ frame.tests[k].time < time_end

AvReturned == av.pc = "returned"
AdReturned == ad.pc = "returned"

\* C1: author_verification returns (True, p) only when a sweep step's p-value
\* is >= 0.05; p is the p-value of the first window size, in sweep order, whose
\* test signals "same", and that window size is the last one evaluated.
C1_FirstMatchWins ==
    (AvReturned /\ av.ret.h) =>
        LET n == Len(av.tests)
        IN  /\ n >= 1
            /\ InSweepOrder(av)
            /\ av.tests[n].p_value >= 5
            /\ av.ret.p_value = av.tests[n].p_value
            /\ \A k \in 1..(n - 1) : av.tests[k].p_value < 5
            /\ av.built = [k \in 1..n |-> av.tests[k].time]

C1_Witness ==
    /\ AvReturned /\ av.ret.h
    /\ Len(av.tests) >= 2
    /\ av.time_start + delta_time < time_end

\* C2: every call of author_verification with time_start >= len(A) ends with
\* the result (False, -1) without running the two-sample test or building a
\* sample. The claim is about documents that can be merged; when A and B differ
\* in dimensionality the merge of line 50 raises ValueError, also before any
\* sample is built.
C2_PastEndOfA ==
    (av.pc # "idle" /\ av.time_start >= av.document1_chunks_len) =>
        /\ av.tests = <<>>
        /\ av.built = <<>>
        /\ IF shape1(av.document1_chunks) = shape1(av.document2_chunks)
           THEN /\ av.pc \in {"loop", "returned"}
                /\ AvReturned => (~av.ret.h /\ av.ret.p_value = -1)
           ELSE av.pc = "raised" /\ av.ret.raised = "ValueError"

C2_Witness ==
    /\ AvReturned
    /\ av.time_start >= av.document1_chunks_len
    /\ av.time_start < time_end
    /\ av.document1_chunks_len > 0

\* C3: when author_verification returns False, its confidence is the largest
\* p-value of the sweep steps at which the two-sample test was run, and it is
\* -1 exactly when the test was run at no step: the sweep range is empty, the
\* first window size is >= len(A), or a sample is empty at the first step.
C3_BestPValueOrSentinel ==
    (AvReturned /\ ~av.ret.h) =>
        /\ (av.ret.p_value = -1) <=> (av.tests = <<>>)
        /\ av.tests # <<>> => av.ret.p_value = SeqMax(TestPValues(av))
        /\ InSweepOrder(av)
        /\ av.tests = <<>> =>
              \/ av.time_start >= time_end
              \/ av.time_start >= av.document1_chunks_len
              \/ /\ av.built = <<av.time_start>>
                 /\ Len(av.z1.value) = 0 \/ Len(av.z2.value) = 0

C3_Witness ==
    /\ AvReturned /\ ~av.ret.h
    /\ Len(av.tests) >= 2
    /\ av.tests[1].p_value > av.tests[2].p_value

\* C4: author_determination returns None with a score map of zeros when every
\* candidate's score is 0, and otherwise returns the author of a candidate
\* whose score is strictly positive.
C4_NoZeroScoreAuthor ==
    AdReturned =>
        LET scores == ad.ret.positive_matches
        IN  IF \A i \in Candidates : ad.positive_matches[i] = 0
            THEN /\ ad.ret.author = None
                 /\ DOMAIN scores = Candidates
                 /\ \A i \in Candidates : scores[i] = 0
            ELSE /\ ad.ret.author # None
                 /\ \E i \in DOMAIN scores :
                       /\ scores[i] > 0
                       /\ all_authors[i + 1] = ad.ret.author

C4_Witness ==
    /\ AdReturned
    /\ ad.ret.author # None
    /\ \E i \in DOMAIN ad.ret.positive_matches : ad.ret.positive_matches[i] = 0

C4_WitnessNone ==
    /\ AdReturned
    /\ ad.ret.author = None
    /\ Len(ad.calls) >= 2

\* C5: every call of author_determination in which no verifier call raised
\* (author found, no author found, early stop, empty sweep, empty candidate
\* list) returns a score map with exactly one entry per candidate index
\* 0..n-1, each 0 or the confidence of a positive verifier match.
C5_ScoreMapAlways ==
    (AdReturned \/ (ad.pc = "raised" /\ ad.calls = <<>>)) =>
        /\ AdReturned
        /\ DOMAIN ad.ret.positive_matches = Candidates
        /\ \A i \in Candidates :
              ad.ret.positive_matches[i] = 0 \/ ad.ret.positive_matches[i] >= 5

\* C6: a sweep whose first window size is zero or negative makes
\* author_verification and author_determination fail with an error: they run
\* no two-sample test at such a window size and return no result (stated for
\* documents on which the window is used: A has a chunk, B has two).
C6_RejectsNonPositiveWindow ==
    (/\ entry \in {"author_verification", "author_determination"}
     /\ time_start <= 0 /\ time_start < time_end
     /\ Len(all_documents) > 0
     /\ \A k \in 1..Len(all_documents) : shape0(all_documents[k]) >= 1
     /\ shape0(document) >= 2) =>
        /\ \A k \in 1..Len(av.tests) : av.tests[k].time >= 1
        /\ ~AvReturned
        /\ ~AdReturned

C8_MismatchState ==
    /\ (entry = "document_distance" /\ shape1(dd.chunk1) # shape1(dd.chunk2)) =>
          (dd.ret.raised = "ValueError" /\ dd.ret.value = NoDistance)
    /\ (entry = "document_distance" /\ shape1(dd.chunk1) = shape1(dd.chunk2)) =>
          (dd.ret.raised = "none" /\ dd.ret.value # NoDistance)
    /\ (av.pc # "idle" /\ shape1(av.document1_chunks) # shape1(av.document2_chunks)) =>
          (av.pc = "raised" /\ av.ret.raised = "ValueError" /\ av.built = <<>>)
    /\ (av.pc # "idle" /\ (av.z1.raised # "none" \/ av.z2.raised # "none")) =>
          (av.pc = "raised" /\ av.ret.raised \in {av.z1.raised, av.z2.raised})
    /\ av.pc = "raised" => (av.ret.raised # "none" /\ ~av.ret.h)
    /\ ad.pc = "raised" => (ad.ret.raised # "none" /\ ad.ret.author = None)

C8_Propagates ==
    (ad.pc = "call" /\ av.pc = "raised") =>
        (ad'.pc = "raised" /\ ad'.ret.raised = av.ret.raised)

C8_DimensionMismatch == [](C8_MismatchState) /\ [][C8_Propagates]_vars

C8_Witness ==
    /\ entry = "document_distance"
    /\ dd.f = "spearman"
    /\ shape1(dd.chunk1) # shape1(dd.chunk2)
    /\ dd.ret.raised = "ValueError"

C8_WitnessPropagated ==
    /\ ad.pc = "raised"
    /\ ad.ret.raised = "ValueError"
    /\ Len(ad.calls) >= 2

\* a sample lists, in ascending order, the ZV value of every index lo, lo+1,
\* ..., hi-1 and of no other; a sample whose computation raised had reached
\* these indices in this order
ListsIndices(sample, all_chunks, time, lo, hi) ==
    /\ Len(sample.index) <= Max0(hi - lo)
    /\ \A k \in 1..Len(sample.index) : sample.index[k] = lo + k - 1
    /\ sample.raised = "none" =>
          /\ Len(sample.value) = Max0(hi - lo)
          /\ Len(sample.index) = Max0(hi - lo)
          /\ \A k \in 1..Len(sample.value) :
                sample.value[k] =
                    zv_function(all_chunks, time, lo + k - 1, "canberra").value

\* z2_built: zv_z2 was called (author_verification does not reach line 63
\* when zv_z1 raises)
SamplesAsSpecified(z1, z2, z2_built, all_chunks, m1, time) ==
    LET m2 == shape0(all_chunks) - m1
    IN  /\ (1 <= time /\ time < m1) => (z1.raised = "none" /\ z2.raised = "none")
        /\ ListsIndices(z1, all_chunks, time, time + 1, m1)
        /\ z1.raised = "none" => Len(z1.value) = Max0(m1 - time - 1)
        /\ z2_built =>
              /\ ListsIndices(z2, all_chunks, time, m1 + 1, m1 + m2)
              /\ z2.raised = "none" => Len(z2.value) = Max0(m2 - 1)

C9_WitnessLargeWindow ==
    /\ entry = "zv"
    /\ zs.time > shape0(zs.document1_chunks)
    /\ zs.z1.value = <<>>
    /\ Len(zs.z2.value) = 1

\* C10: in author_determination, as soon as a verifier call returns a match
\* with confidence >= 0.99 both loops are left: the match is recorded, no
\* verifier call follows it, and the score map is returned as it then stands.
C10_Recorded ==
    (ad.pc = "call" /\ av.pc = "returned" /\ av.ret.h /\ av.ret.p_value >= 99) =>
        /\ ad'.pc = "break"
        /\ ad'.stop
        /\ ad'.positive_matches[ad.i] = av.ret.p_value
        /\ ad'.calls = ad.calls

C10_LoopsLeft ==
    (ad.pc = "break") =>
        /\ ad'.pc = "returned"
        /\ ad'.calls = ad.calls
        /\ ad'.positive_matches = ad.positive_matches
        /\ ad'.ret.positive_matches = ad.positive_matches
        /\ av'.pc = "idle"

C10_NoCallAfter ==
    (\E i \in DOMAIN ad.positive_matches : ad.positive_matches[i] >= 99) =>
        /\ ad.pc \in {"break", "returned"}
        /\ ad.stop
        /\ ad.positive_matches[ad.calls[Len(ad.calls)].i] >= 99
        /\ av.pc = "idle"

C10_EarlyStop ==
    [](C10_NoCallAfter) /\ [][C10_Recorded]_vars /\ [][C10_LoopsLeft]_vars

C10_Witness ==
    /\ AdReturned
    /\ ad.stop
    /\ ad.i + 1 < Len(all_documents)
    /\ ad.time + delta_time < time_end

\* the number of window sizes of range(start, end, delta)
NumWindows(start, end, delta) ==
    IF end <= start THEN 0 ELSE (end - start + delta - 1) \div delta

\* the candidate index and the window size of a two-sample test ks_2samp
\* has answered
TestedCandidate(r) == r.z1[1].sum[1][2][1] - 1
TestedWindow(r) == r.z1[1].time

\* the verifier calls made so far are the first ones of the enumeration:
\* window sizes time_start, time_start + delta_time, ... < time_end, and at each
\* the candidates 0, 1, ..., n-1; the call in progress has the candidate as
\* document A, the unknown document as document B, the outer window size as
\* sweep start and the caller's time_end and delta_time; a determination that
\* returns without the early stop has made all the calls of the enumeration
C11_CallsInOrder ==
    entry = "author_determination" =>
        LET n == Len(all_documents)
        IN  /\ \A k \in 1..Len(ad.calls) :
                  /\ n > 0
                  /\ ad.calls[k].i = (k - 1) % n
                  /\ ad.calls[k].time_start = time_start + ((k - 1) \div n) * delta_time
                  /\ ad.calls[k].time_start < time_end
            /\ ad.pc = "call" =>
                  LET c == ad.calls[Len(ad.calls)]
                  IN  /\ av.pc # "idle"
                      /\ av.document1_chunks = all_documents[c.i + 1]
                      /\ av.document2_chunks = document
                      /\ av.time_start = c.time_start
                      /\ av.time_end = time_end
                      /\ av.delta_time = delta_time
            /\ ad.pc # "call" => av.pc = "idle"
            /\ (AdReturned /\ ~ad.stop) =>
                  Len(ad.calls) = n * NumWindows(time_start, time_end, delta_time)

\* a matching call sets the candidate's score to the larger of its score and
\* the returned confidence, a non-matching call leaves the score map as it
\* is, and nothing else changes the score map
C11_ScoreUpdate ==
    /\ (ad.pc = "call" /\ av.pc = "returned" /\ av.ret.h) =>
          ad'.positive_matches =
              [ad.positive_matches EXCEPT
                  ![ad.i] = IF av.ret.p_value > @ THEN av.ret.p_value ELSE @]
    /\ (ad.pc = "call" /\ av.pc = "returned" /\ ~av.ret.h) =>
          ad'.positive_matches = ad.positive_matches
    /\ ad.pc \in {"loop", "break"} => ad'.positive_matches = ad.positive_matches

\* C11: in author_determination the outer loop visits the window sizes
\* time_start, time_start + delta_time, ... < time_end in order and at each
\* window size t calls author_verification once per candidate in index order,
\* with the candidate as document A, the unknown document as document B, sweep
\* start t and the original time_end and delta_time; a matching call sets the
\* candidate's score to max(previous score, returned confidence) and a
\* non-matching call leaves the score map unchanged.
C11_OuterSweep == [](C11_CallsInOrder) /\ [][C11_ScoreUpdate]_vars

\* a determination over two window sizes and two candidates that ran to the
\* end, in which a candidate matched with 0.5 at window size 2 and, in the
\* next outer iteration, with 0.05 at window size 3
C11_Witness ==
    /\ AdReturned /\ ~ad.stop
    /\ time_start = 2 /\ delta_time = 1
    /\ Len(ad.calls) = 4
    /\ \E r1 \in ks_2samp, r2 \in ks_2samp :
          /\ TestedCandidate(r1) = TestedCandidate(r2)
          /\ TestedWindow(r1) = 2 /\ r1.p_value = 50
          /\ TestedWindow(r2) = 3 /\ r2.p_value = 5
          /\ ad.ret.positive_matches[TestedCandidate(r1)] = 50

\* a sample that was built and holds no value
EmptySample(z) == z.raised = "none" /\ z.value = <<>>

\* the sweep of the call in progress was stopped at the window size it built
\* its samples for last: no test at that window size or a later one, no
\* exception, the result (False, best p-value so far)
StoppedWithBestSoFar ==
    /\ av.pc = "returned"
    /\ av.ret.raised = "none"
    /\ ~av.ret.h
    /\ av.ret.p_value = IF av.tests = <<>> THEN -1 ELSE SeqMax(TestPValues(av))
    /\ \A k \in 1..Len(av.tests) : av.tests[k].time < av.built[Len(av.built)]

\* C12: when either ZV sample is empty at some window size, author_verification
\* stops the sweep at that window size without running the two-sample test on
\* it or on any later window size, raises no exception, and returns
\* (False, best p-value seen so far).
C12_EmptySampleStops ==
    (/\ av.pc # "idle" /\ av.built # <<>>
     /\ EmptySample(av.z1) \/ (av.z1.raised = "none" /\ EmptySample(av.z2))) =>
        StoppedWithBestSoFar

\* the same for the window sizes >= 1
C12_AtPositiveWindows ==
    (/\ av.pc # "idle" /\ av.built # <<>>
     /\ av.built[Len(av.built)] >= 1
     /\ EmptySample(av.z1) \/ (av.z1.raised = "none" /\ EmptySample(av.z2))) =>
        StoppedWithBestSoFar

\* no ZV value of the sample is computed at the index i
NeverAt(sample, i) == \A k \in 1..Len(sample.index) : sample.index[k] # i

\* C13 as claimed: Sample1 strictly excludes the final index of document A:
\* for every m1 and window size, zv_z1 never computes a ZV value at chunk
\* index m1-1 (stated for the window sizes >= 1).
C13_Original ==
    /\ (entry = "zv" /\ zs.time >= 1) =>
          NeverAt(zs.z1, shape0(zs.document1_chunks) - 1)
    /\ (av.pc # "idle" /\ av.built # <<>> /\ av.built[Len(av.built)] >= 1) =>
          NeverAt(av.z1, av.document1_chunks_len - 1)

\* the indices of Sample1 lie in time+1 .. m1-1; a Sample1 that is returned
\* is non-empty exactly when time+1 <= m1-1, and then its last value is the
\* ZV value of the final index m1-1 of document A
EndsAtFinalIndex(sample, all_chunks, m1, time) ==
    /\ \A k \in 1..Len(sample.index) :
          time + 1 <= sample.index[k] /\ sample.index[k] <= m1 - 1
    /\ NeverAt(sample, m1)
    /\ sample.raised = "none" =>
          /\ (sample.value # <<>>) <=> (time + 1 <= m1 - 1)
          /\ sample.value # <<>> =>
                /\ Len(sample.index) = Len(sample.value)
                /\ sample.index[Len(sample.index)] = m1 - 1
                /\ sample.value[Len(sample.value)] =
                      zv_function(all_chunks, time, m1 - 1, "canberra").value

\* C13 as amended: Sample1 ends at the final index of document A and strictly
\* excludes the first index of document B: zv_z1 computes ZV values only at
\* chunk indices time+1 .. m1-1, never at index m1, and every non-empty
\* Sample1 it returns ends with the ZV value of chunk index m1-1.
C13_EndsAtFinalIndex ==
    /\ entry = "zv" =>
          EndsAtFinalIndex(zs.z1, zs.all_chunks, shape0(zs.document1_chunks), zs.time)
    /\ (av.pc # "idle" /\ av.built # <<>>) =>
          EndsAtFinalIndex(av.z1, av.all_chunks, av.document1_chunks_len,
                           av.built[Len(av.built)])

\* a verification whose last Sample1 holds two values, the second of them
\* computed at the final index of document A
C13_Witness ==
    /\ av.pc = "returned"
    /\ av.z1.raised = "none"
    /\ Len(av.z1.value) = 2
    /\ av.z1.index[2] = av.document1_chunks_len - 1
    /\ av.tests # <<>>

\* the candidates whose score is the largest of the score map
TopCandidates(scores) ==
    {i \in DOMAIN scores : \A k \in DOMAIN scores : scores[k] <= scores[i]}

\* C14: after the loops author_determination picks the candidate with the
\* maximum score, and when several candidates share the maximum (non-zero)
\* score it returns the author of the one with the lowest candidate index,
\* whatever the order in which the scores were reached.
C14_LowestIndexOfBest ==
    AdReturned =>
        LET scores == ad.ret.positive_matches
            top    == TopCandidates(scores)
        IN  /\ scores = ad.positive_matches
            /\ top # {}
            /\ \E i \in top :
                  /\ \A k \in top : i <= k
                  /\ ad.ret.author = IF scores[i] = 0 THEN None ELSE all_authors[i + 1]

\* two candidates of different authors share the score 0.5; candidate 1
\* reached it first (window size 2, first outer iteration), candidate 0, which
\* then matched with 0.05, in the second outer iteration (window size 3);
\* the author of candidate 0 is returned
C14_Witness ==
    /\ AdReturned /\ ~ad.stop
    /\ time_start = 2 /\ delta_time = 1
    /\ Len(all_documents) = 2 /\ all_authors[1] # all_authors[2]
    /\ ad.ret.positive_matches[0] = 50 /\ ad.ret.positive_matches[1] = 50
    /\ ad.ret.author = all_authors[1]
    /\ \E r1 \in ks_2samp, r2 \in ks_2samp, r3 \in ks_2samp :
          /\ TestedCandidate(r1) = 0 /\ TestedWindow(r1) = 2 /\ r1.p_value = 5
          /\ TestedCandidate(r2) = 0 /\ TestedWindow(r2) = 3 /\ r2.p_value = 50
          /\ TestedCandidate(r3) = 1 /\ TestedWindow(r3) = 2 /\ r3.p_value = 50

\* the chunk indices i - j zv_function has read for a sample
Reads(sample) ==
    UNION {{sample.reads[k][j] : j \in 1..Len(sample.reads[k])} :
              k \in 1..Len(sample.reads)}

\* C15: within author_verification with time_start >= 1 and delta_time >= 1 no
\* chunk index i - j read by zv_function is negative: every index read for
\* Sample1 lies in [2, m1-1] (inside document A) and every index read for
\* Sample2 in [3, m1+m2-1], so that the wrap-around of negative indices is
\* not reached through the verifier or the determiner, and no sample fails.
C15_NoNegativeIndex ==
    (av.pc # "idle" /\ av.time_start >= 1 /\ av.delta_time >= 1) =>
        LET m1 == av.document1_chunks_len
            m  == shape0(av.all_chunks)
        IN  /\ \A r \in Reads(av.z1) : 2 <= r /\ r <= m1 - 1
            /\ \A r \in Reads(av.z2) : 3 <= r /\ r <= m - 1
            /\ av.z1.raised = "none" /\ av.z2.raised = "none"
            /\ av.pc = "raised" => av.built = <<>>

\* a call made by author_determination, at a window size >= 2, whose Sample1
\* was read from index 2 to m1-1 and whose Sample2 was read from index
\* m1 - time + 2, inside document A, to m1+m2-1
C15_Witness ==
    /\ entry = "author_determination"
    /\ av.pc = "returned"
    /\ av.time_start >= 2
    /\ av.tests # <<>>
    /\ 2 \in Reads(av.z1)
    /\ av.document1_chunks_len - 1 \in Reads(av.z1)
    /\ av.document1_chunks_len - av.built[Len(av.built)] + 2 \in Reads(av.z2)
    /\ shape0(av.all_chunks) - 1 \in Reads(av.z2)

\* the least index read for Sample2, 3, is read at the window size m1-1
C15_WitnessLeast ==
    /\ av.pc = "returned"
    /\ av.time_start >= 1
    /\ 3 \in Reads(av.z2)
    /\ av.built[Len(av.built)] = av.document1_chunks_len - 1

\* a is a suffix of b
IsSuffix(a, b) ==
    /\ Len(a) <= Len(b)
    /\ \A j \in 1..Len(a) : a[j] = b[Len(b) - Len(a) + j]

\* the outcome of the first verifier call for the candidate of the k-th call
FirstOutcome(k) == ad.returns[ad.calls[k].i + 1]

\* a candidate that was not matched by its first call is matched by no later
\* call and has the score 0
UnmatchedStaysUnmatched ==
    \A k \in 1..Len(ad.returns) :
        ~FirstOutcome(k).h =>
            /\ ~ad.returns[k].h
            /\ ad.returns[k].scores[ad.calls[k].i] = 0
            /\ ad.positive_matches[ad.calls[k].i] = 0

\* the score of every candidate grows or stays from one verifier call to the
\* next, starting from 0, and the score map is the one the last call left
ScoresNonDecreasing ==
    /\ \A k \in 1..Len(ad.returns) : \A c \in Candidates :
          ad.returns[k].scores[c] >=
              (IF k = 1 THEN 0 ELSE ad.returns[k - 1].scores[c])
    /\ ad.returns # <<>> =>
          ad.positive_matches = ad.returns[Len(ad.returns)].scores

\* C16 as claimed: with a deterministic two-sample test, every verifier sweep
\* author_determination starts at a later outer window size visits a suffix
\* of the window sizes visited by the candidate's sweep started at
\* time_start; hence a candidate not matched in the first outer iteration is
\* never matched in a later one and keeps the score 0 to the end, and every
\* candidate's score is non-decreasing across outer iterations (stated for
\* the sweeps that start at a window size >= 1).
C16_Original ==
    (entry = "author_determination" /\ time_start >= 1) =>
        /\ \A k \in 1..Len(ad.returns) :
              IsSuffix(ad.returns[k].built, FirstOutcome(k).built)
        /\ UnmatchedStaysUnmatched
        /\ ScoresNonDecreasing

\* C16 as amended: with a deterministic two-sample test, every verifier sweep
\* author_determination starts at a later outer window size visits window
\* sizes of a suffix of the range time_start, time_start + delta_time, ...
\* < time_end of the first sweep, and when the candidate's first sweep did
\* not match it runs the two-sample test at a suffix of the window sizes at
\* which the first sweep ran it (a first sweep that matched, or that was
\* stopped at its first window size, did not visit the later window sizes a
\* later sweep visits); hence a candidate not matched in the first outer
\* iteration is never matched in a later one and keeps the score 0 to the
\* end, and every candidate's score is non-decreasing across outer
\* iterations.
C16_LaterSweeps ==
    entry = "author_determination" =>
        /\ Len(ad.returns) \in {Len(ad.calls), Len(ad.calls) - 1}
        /\ \A k \in 1..Len(ad.returns) :
              LET built == ad.returns[k].built
              IN  /\ \A j \in 1..Len(built) :
                        /\ built[j] = ad.calls[k].time_start + (j - 1) * delta_time
                        /\ built[j] < time_end
                        /\ (built[j] - time_start) % delta_time = 0
                  /\ ~FirstOutcome(k).h =>
                        IsSuffix(ad.returns[k].tested, FirstOutcome(k).tested)
        /\ UnmatchedStaysUnmatched
        /\ ScoresNonDecreasing

\* two outer iterations over two candidates: candidate 0 is tested and not
\* matched in the first (window sizes 2 and 3) and again in the second
\* (window size 3); candidate 1 matches with 0.05 and then with 0.5
C16_Witness ==
    /\ AdReturned /\ ~ad.stop
    /\ time_start = 2 /\ delta_time = 1
    /\ Len(ad.returns) = 4
    /\ ~ad.returns[1].h /\ ad.returns[1].built = <<2, 3>>
    /\ ~ad.returns[3].h /\ ad.returns[3].built = <<3>> /\ ad.returns[3].p_value = 3
    /\ ad.returns[2].h /\ ad.returns[2].p_value = 5
    /\ ad.returns[4].h /\ ad.returns[4].p_value = 50
    /\ ad.ret.positive_matches = [c \in Candidates |-> IF c = 0 THEN 0 ELSE 50]

=============================================================================
